---- MODULE Spec2Model ----
(***************************************************************************)
(* Room synchronisation of the arcade game's multiplayer mode              *)
(* (src/unnamed/part_000, the App component; src/unnamed/part_001, the     *)
(* constants).                                                             *)
(*                                                                         *)
(* One shared room document (Firestore doc rooms/<id>), written with       *)
(* setDoc/updateDoc and observed through onSnapshot.  Each participant is  *)
(* one App instance: its React state (gameState, roomId, roomData, score), *)
(* its refs (latestScoreRef, lastScoreSync) and the room listener effect,  *)
(* whose snapshot callback closes over the gameState of the render that    *)
(* created it.                                                             *)
(*                                                                         *)
(* Scheduling.  A write is applied to the document when it is issued.  A   *)
(* live listener is handed either the current record or an older one that  *)
(* is still in flight (old, captured by Capture): snapshots may be         *)
(* delivered late, repeatedly and out of order.  Of a snapshot the model   *)
(* keeps the fields the callback reads (every field but the scores).       *)
(* State set inside a snapshot callback, an error callback, a game         *)
(* callback or after an await is rendered later: the listener effect is    *)
(* re-run by a separate step (RunEffect), and until then the old callback, *)
(* with the old gameState, stays subscribed.  State set inside a click     *)
(* handler (handleLeaveRoom, handleEnterLobby) is rendered and its effects *)
(* flushed before the handler's event ends, so those actions include the   *)
(* effect; a click is handled only once the pending effects have run.      *)
(***************************************************************************)
EXTENDS Integers, FiniteSets, Sequences, TLC

VARIABLES
    doc,            \* the shared RoomRecord (status "absent": not created)
    old,            \* an earlier snapshot of it, still in flight
    now,            \* Date.now()
    authed,         \* [p]: userId has been set
    gameState,      \* [p]: useState<GameState>
    roomId,         \* [p]: useState<string | null>
    roomData,       \* [p]: useState<RoomData | null>: of the last snapshot
                    \*      handled, what the handlers read (set or not, the
                    \*      player ids in it)
    score,          \* [p]: latestScoreRef.current (current, lives)
    lastScoreSync,  \* [p]: lastScoreSync.current
    sub,            \* [p]: the listener effect instance and what it closed over
    pc,             \* [p]: "idle", or "joining" between getDoc and updateDoc
    alert,          \* [p]: the last alert() shown
    last            \* [p]: the snapshot handled last, if the callback started
                    \*      the game or forced a game-over on it, and how
                    \*      many times in a row it has done so

vars == <<doc, old, now, authed, gameState, roomId, roomData, score,
          lastScoreSync, sub, pc, alert, last>>

-----------------------------------------------------------------------------
(* Constants of the program *)

GAME_DURATION_MS == 180000
MAX_PLAYERS_PER_ROOM == 30
INITIAL_LIVES == 3
SCORE_SYNC_MS == 2000

(* Bounds of the model *)

MaxScore == 1
MaxTicks == 2

Participants == {"A", "B"}
Scores == 0..MaxScore
LivesLeft == {0, INITIAL_LIVES}

\* The clock advances in steps of a little more than half a round: one step
\* passes the score-report interval, two steps pass the round's duration.
TickStep == (GAME_DURATION_MS \div 2) + 1
FirstNow == SCORE_SYNC_MS + 1
LastNow == FirstNow + MaxTicks * TickStep

NoTime == 0
NoRoom == "none"
TheRoom == "ROOM"

-----------------------------------------------------------------------------
(* The room record *)

NoPlayer == [present |-> FALSE, score |-> 0, isHost |-> FALSE, status |-> "ready"]

PlayerEntry(sc, host, st) ==
    [present |-> TRUE, score |-> sc, isHost |-> host, status |-> st]

\* guests, guestStatus: the entries of clients outside Participants (see
\* GuestJoin), all with score 0 and one status
NoDoc ==
    [status |-> "absent", startTime |-> NoTime,
     players |-> [q \in Participants |-> NoPlayer],
     guests |-> 0, guestStatus |-> "ready"]

\* docSnap.data(), without the scores
View(d) ==
    [status |-> d.status, startTime |-> d.startTime,
     players |-> [q \in Participants |->
                     [present |-> d.players[q].present,
                      isHost |-> d.players[q].isHost,
                      status |-> d.players[q].status]],
     guests |-> d.guests, guestStatus |-> d.guestStatus]

NoSnap == View(NoDoc)

Keys(data) == {q \in Participants : data.players[q].present}

PlayerCount(data) == Cardinality(Keys(data)) + data.guests

ActivePlayersCount(data) ==
    Cardinality({q \in Keys(data) : data.players[q].status = "playing"})
      + (IF data.guestStatus = "playing" THEN data.guests ELSE 0)

TimeIsUp(data, t) ==
    data.startTime # NoTime /\ t - data.startTime > GAME_DURATION_MS

SetPlayer(d, p, e) == [d EXCEPT !.players[p] = e]

NoRoomData == [set |-> FALSE, keys |-> {}, guests |-> 0]

RoomDataOf(data) == [set |-> TRUE, keys |-> Keys(data), guests |-> data.guests]

\* updateDoc with status, startTime, and players.<pid>.status and
\* players.<pid>.score for every pid of roomData rd
ResetAllUpdate(d, rd, roomStatus, t, st) ==
    [d EXCEPT
        !.status = roomStatus,
        !.startTime = t,
        !.players = [q \in Participants |->
                        IF q \in rd.keys
                        THEN [d.players[q] EXCEPT
                                 !.present = TRUE, !.status = st, !.score = 0]
                        ELSE d.players[q]],
        !.guestStatus = IF rd.guests > 0 THEN st ELSE d.guestStatus]

RoundResultStatus(lives) == IF lives > 0 THEN "finished" ELSE "crashed"

\* mutant: the caller's whole entry is written
RoundResultUpdate_WholeEntry(d, p, sc, lives) ==
    SetPlayer(d, p, PlayerEntry(sc, FALSE, RoundResultStatus(lives)))

RoundResultUpdate(d, p, sc, lives) ==
    [d EXCEPT !.players[p].score = sc,
              !.players[p].status = RoundResultStatus(lives)]

-----------------------------------------------------------------------------
(* The room listener effect *)

NoSub == [room |-> NoRoom, phase |-> "menu", state |-> "none"]

LiveSub(r, g) == [room |-> r, phase |-> g, state |-> "live"]

\* mutant: the effect depends on the score as well
EffectStale_OnScore(p) ==
    \/ sub[p].room # roomId[p]
    \/ roomId[p] # NoRoom /\ sub[p].phase # gameState[p]
    \/ roomId[p] # NoRoom /\ score[p].current # 0

\* the dependencies [roomId, gameState] differ from those of the last run
EffectStale(p) ==
    \/ sub[p].room # roomId[p]
    \/ roomId[p] # NoRoom /\ sub[p].phase # gameState[p]

\* cleanup of the previous run (unsub), then the effect body under roomId r
\* and gameState g
EffectSub(r, g) == IF r = NoRoom THEN NoSub ELSE LiveSub(r, g)

EffectRoomData(p, r) == IF r = NoRoom THEN NoRoomData ELSE roomData[p]

StartGameScore == [current |-> 0, lives |-> INITIAL_LIVES]

\* The branches of the snapshot callback, on snapshot data under the closed
\* over gameState ph
MyPlayer(data, p) == data.players[p]

\* mutant: the player's own status is not looked at
StartsGame_AnyStatus(data, p, ph) ==
    /\ data.status = "playing"
    /\ MyPlayer(data, p).present
    /\ ph \in {"lobby", "spectating", "game_over"}

StartsGame(data, p, ph) ==
    /\ data.status = "playing"
    /\ MyPlayer(data, p).present
    /\ MyPlayer(data, p).status # "crashed"
    /\ MyPlayer(data, p).status \in {"playing", "ready"}
    /\ ph \in {"lobby", "spectating", "game_over"}

ForcesGameOver(data, ph) == data.status = "finished" /\ ph = "playing"

\* mutant: the results are shown to the wrong phase
ShowsResults_WrongPhase(data, ph) ==
    data.status = "finished" /\ ph = "game_over"

ShowsResults(data, ph) == data.status = "finished" /\ ph = "spectating"

ReturnsToLobby(data, ph) ==
    data.status = "waiting" /\ ph \in {"game_over", "spectating"}

\* mutant: the round ends only when both conditions hold
HostEndsRound_Both(data, p, t) ==
    /\ MyPlayer(data, p).present
    /\ MyPlayer(data, p).isHost
    /\ data.status = "playing"
    /\ (TimeIsUp(data, t) /\ ActivePlayersCount(data) = 0)

\* mutant: the round ends on the timeout only
HostEndsRound_TimeoutOnly(data, p, t) ==
    /\ MyPlayer(data, p).present
    /\ MyPlayer(data, p).isHost
    /\ data.status = "playing"
    /\ TimeIsUp(data, t)

\* mutant: any participant ends the round
HostEndsRound_AnyParticipant(data, p, t) ==
    /\ MyPlayer(data, p).present
    /\ data.status = "playing"
    /\ (TimeIsUp(data, t) \/ ActivePlayersCount(data) = 0)

HostEndsRound(data, p, t) ==
    /\ MyPlayer(data, p).present
    /\ MyPlayer(data, p).isHost
    /\ data.status = "playing"
    /\ (TimeIsUp(data, t) \/ ActivePlayersCount(data) = 0)

SnapshotPhase(data, p, ph, cur) ==
    IF StartsGame(data, p, ph) THEN "playing"
    ELSE IF ForcesGameOver(data, ph) THEN "spectating"
    ELSE IF ShowsResults(data, ph) THEN "game_over"
    ELSE IF ReturnsToLobby(data, ph) THEN "lobby"
    ELSE cur

SnapshotEffect(data, p, ph) ==
    IF StartsGame(data, p, ph) THEN "start"
    ELSE IF ForcesGameOver(data, ph) THEN "gameover"
    ELSE "none"

\* mutant: the forced game-over reports the score the game started with
SnapshotWrite_StartScore(d, data, p, ph, t) ==
    IF ForcesGameOver(data, ph)
    THEN RoundResultUpdate(d, p, StartGameScore.current, StartGameScore.lives)
    ELSE IF HostEndsRound(data, p, t)
    THEN [d EXCEPT !.status = "finished"]
    ELSE d

SnapshotWrite(d, data, p, ph, t) ==
    IF ForcesGameOver(data, ph)
    THEN RoundResultUpdate(d, p, score[p].current, score[p].lives)
    ELSE IF HostEndsRound(data, p, t)
    THEN [d EXCEPT !.status = "finished"]
    ELSE d

NoLast == [data |-> NoSnap, effect |-> "none", times |-> 0]

\* a snapshot handled with a side effect is remembered, and counted when it
\* is the one remembered
LastAfter(p, data, ph) ==
    IF SnapshotEffect(data, p, ph) = "none" THEN NoLast
    ELSE [data |-> data, effect |-> SnapshotEffect(data, p, ph),
          times |-> IF last[p].data = data THEN 2 ELSE 1]

-----------------------------------------------------------------------------
Init ==
    /\ doc = NoDoc
    /\ old = NoSnap
    /\ now = FirstNow
    /\ authed = [p \in Participants |-> FALSE]
    /\ gameState = [p \in Participants |-> "menu"]
    /\ roomId = [p \in Participants |-> NoRoom]
    /\ roomData = [p \in Participants |-> NoRoomData]
    /\ score = [p \in Participants |-> StartGameScore]
    /\ lastScoreSync = [p \in Participants |-> 0]
    /\ sub = [p \in Participants |-> NoSub]
    /\ pc = [p \in Participants |-> "idle"]
    /\ alert = [p \in Participants |-> "none"]
    /\ last = [p \in Participants |-> NoLast]

\* signInAnonymously resolves (or the guest fallback): setUserId
Auth(p) ==
    /\ ~authed[p]
    /\ authed' = [authed EXCEPT ![p] = TRUE]
    /\ UNCHANGED <<doc, old, now, gameState, roomId, roomData, score,
                   lastScoreSync, sub, pc, alert, last>>

Tick ==
    /\ now + TickStep <= LastNow
    /\ now' = now + TickStep
    /\ UNCHANGED <<doc, old, authed, gameState, roomId, roomData, score,
                   lastScoreSync, sub, pc, alert, last>>

\* a snapshot of the current record stays in flight (one in a behaviour)
Capture ==
    /\ doc.status # "absent"
    /\ old = NoSnap
    /\ old' = View(doc)
    /\ UNCHANGED <<doc, now, authed, gameState, roomId, roomData, score,
                   lastScoreSync, sub, pc, alert, last>>

\* the onSnapshot callback of p's listener runs on snapshot data
Deliver(p, data) ==
    /\ sub[p].state = "live"
    /\ data.status # "absent"
    /\ MyPlayer(data, p).present
    /\ roomData' = [roomData EXCEPT ![p] = RoomDataOf(data)]
    /\ gameState' = [gameState EXCEPT
                        ![p] = SnapshotPhase(data, p, sub[p].phase, @)]
    /\ score' = [score EXCEPT
                    ![p] = IF StartsGame(data, p, sub[p].phase)
                           THEN StartGameScore ELSE @]
    /\ doc' = SnapshotWrite(doc, data, p, sub[p].phase, now)
    /\ last' = [last EXCEPT ![p] = LastAfter(p, data, sub[p].phase)]
    /\ UNCHANGED <<old, now, authed, roomId, lastScoreSync, sub, pc, alert>>

\* mutant: the room reference is kept
SnapshotError_KeepsRoom(p) ==
    /\ sub[p].state = "live"
    /\ gameState' = [gameState EXCEPT ![p] = "menu"]
    /\ sub' = [sub EXCEPT ![p].state = "errored"]
    /\ last' = [last EXCEPT ![p] = NoLast]
    /\ UNCHANGED <<doc, old, now, authed, roomId, roomData, score,
                   lastScoreSync, pc, alert>>

\* the onSnapshot error callback; the store ends an errored listener
SnapshotError(p) ==
    /\ sub[p].state = "live"
    /\ roomId' = [roomId EXCEPT ![p] = NoRoom]
    /\ gameState' = [gameState EXCEPT ![p] = "menu"]
    /\ sub' = [sub EXCEPT ![p].state = "errored"]
    /\ last' = [last EXCEPT ![p] = NoLast]
    /\ UNCHANGED <<doc, old, now, authed, roomData, score, lastScoreSync, pc,
                   alert>>

\* React re-runs the listener effect after a render that changed its
\* dependencies
RunEffect(p) ==
    /\ EffectStale(p)
    /\ sub' = [sub EXCEPT ![p] = EffectSub(roomId[p], gameState[p])]
    /\ roomData' = [roomData EXCEPT ![p] = EffectRoomData(p, roomId[p])]
    /\ UNCHANGED <<doc, old, now, authed, gameState, roomId, score,
                   lastScoreSync, pc, alert, last>>

-----------------------------------------------------------------------------
(* Lobby actions *)

\* p's screen is rendered and p is not inside handleJoinRoom
CanClick(p) == pc[p] = "idle" /\ ~EffectStale(p)

\* MainMenu onStart, Leaderboard onLeave
handleEnterLobby(p) ==
    /\ CanClick(p)
    /\ \/ gameState[p] = "menu"
       \/ gameState[p] = "game_over" /\ roomId[p] # NoRoom /\ roomData[p].set
    /\ gameState' = [gameState EXCEPT ![p] = "lobby"]
    /\ sub' = [sub EXCEPT ![p] = EffectSub(roomId[p], "lobby")]
    /\ roomData' = [roomData EXCEPT ![p] = EffectRoomData(p, roomId[p])]
    /\ alert' = [alert EXCEPT ![p] = "none"]
    /\ last' = [last EXCEPT ![p] = NoLast]
    /\ UNCHANGED <<doc, old, now, authed, roomId, score, lastScoreSync, pc>>

handleCreateRoom(p) ==
    /\ authed[p]
    /\ CanClick(p)
    /\ gameState[p] = "lobby"
    /\ roomId[p] = NoRoom
    /\ doc.status = "absent"
    /\ doc' = [SetPlayer(NoDoc, p, PlayerEntry(0, TRUE, "ready"))
                  EXCEPT !.status = "waiting"]
    /\ roomId' = [roomId EXCEPT ![p] = TheRoom]
    /\ gameState' = [gameState EXCEPT ![p] = "lobby"]
    /\ alert' = [alert EXCEPT ![p] = "none"]
    /\ UNCHANGED <<old, now, authed, roomData, score, lastScoreSync, sub, pc,
                   last>>

\* mutant: the capacity check is off by one
JoinVerdict_OffByOne(data) ==
    IF data.status = "absent" THEN "Room not found"
    ELSE IF PlayerCount(data) > MAX_PLAYERS_PER_ROOM
    THEN "Room full wait for next round"
    ELSE IF data.status = "playing" THEN "Game in progress"
    ELSE "none"

JoinVerdict(data) ==
    IF data.status = "absent" THEN "Room not found"
    ELSE IF PlayerCount(data) >= MAX_PLAYERS_PER_ROOM
    THEN "Room full wait for next round"
    ELSE IF data.status = "playing" THEN "Game in progress"
    ELSE "none"

\* handleJoinRoom up to the await of updateDoc: getDoc and the checks
JoinRead(p) ==
    /\ authed[p]
    /\ CanClick(p)
    /\ gameState[p] = "lobby"
    /\ roomId[p] = NoRoom
    /\ alert' = [alert EXCEPT ![p] = JoinVerdict(doc)]
    /\ pc' = [pc EXCEPT ![p] = IF JoinVerdict(doc) = "none"
                               THEN "joining" ELSE "idle"]
    /\ UNCHANGED <<doc, old, now, authed, gameState, roomId, roomData, score,
                   lastScoreSync, sub, last>>

\* handleJoinRoom from updateDoc on
JoinWrite(p) ==
    /\ pc[p] = "joining"
    /\ doc' = SetPlayer(doc, p, PlayerEntry(0, FALSE, "ready"))
    /\ roomId' = [roomId EXCEPT ![p] = TheRoom]
    /\ gameState' = [gameState EXCEPT ![p] = "lobby"]
    /\ pc' = [pc EXCEPT ![p] = "idle"]
    /\ UNCHANGED <<old, now, authed, roomData, score, lastScoreSync, sub,
                   alert, last>>

handleStartMatch(p) ==
    /\ CanClick(p)
    /\ gameState[p] = "lobby"
    /\ roomId[p] # NoRoom
    /\ roomData[p].set
    /\ doc' = ResetAllUpdate(doc, roomData[p], "playing", now, "playing")
    /\ UNCHANGED <<old, now, authed, gameState, roomId, roomData, score,
                   lastScoreSync, sub, pc, alert, last>>

handleRestartLobby(p) ==
    /\ CanClick(p)
    /\ gameState[p] = "game_over"
    /\ roomId[p] # NoRoom
    /\ roomData[p].set
    /\ doc' = ResetAllUpdate(doc, roomData[p], "waiting", NoTime, "ready")
    /\ UNCHANGED <<old, now, authed, gameState, roomId, roomData, score,
                   lastScoreSync, sub, pc, alert, last>>

\* mutant: the listener is not cleaned up within the click
handleLeaveRoom_NoCleanup(p) ==
    /\ CanClick(p)
    /\ \/ gameState[p] = "lobby"
       \/ gameState[p] = "spectating" /\ roomData[p].set
    /\ roomId' = [roomId EXCEPT ![p] = NoRoom]
    /\ gameState' = [gameState EXCEPT ![p] = "menu"]
    /\ last' = [last EXCEPT ![p] = NoLast]
    /\ UNCHANGED <<doc, old, now, authed, roomData, score, lastScoreSync, sub,
                   pc, alert>>

\* Lobby onLeave, SpectatorView onLeave
handleLeaveRoom(p) ==
    /\ CanClick(p)
    /\ \/ gameState[p] = "lobby"
       \/ gameState[p] = "spectating" /\ roomData[p].set
    /\ roomId' = [roomId EXCEPT ![p] = NoRoom]
    /\ gameState' = [gameState EXCEPT ![p] = "menu"]
    /\ sub' = [sub EXCEPT ![p] = EffectSub(NoRoom, "menu")]
    /\ roomData' = [roomData EXCEPT ![p] = EffectRoomData(p, NoRoom)]
    /\ last' = [last EXCEPT ![p] = NoLast]
    /\ UNCHANGED <<doc, old, now, authed, score, lastScoreSync, pc, alert>>

-----------------------------------------------------------------------------
(* Game actions: the callbacks GameCanvas is given *)

ScoreSyncDue(p) ==
    roomId[p] # NoRoom /\ authed[p] /\ now - lastScoreSync[p] > SCORE_SYNC_MS

handleScoreUpdate(p, cur, lives) ==
    /\ gameState[p] = "playing"
    /\ score' = [score EXCEPT ![p] = [current |-> cur, lives |-> lives]]
    /\ doc' = IF ScoreSyncDue(p)
              THEN [doc EXCEPT !.players[p].score = cur] ELSE doc
    /\ lastScoreSync' = [lastScoreSync EXCEPT
                            ![p] = IF ScoreSyncDue(p) THEN now ELSE @]
    /\ last' = [last EXCEPT ![p] = NoLast]
    /\ UNCHANGED <<old, now, authed, gameState, roomId, roomData, sub, pc,
                   alert>>

handleGameOver(p, cur, lives) ==
    /\ gameState[p] = "playing"
    /\ doc' = IF roomId[p] # NoRoom /\ authed[p]
              THEN RoundResultUpdate(doc, p, cur, lives) ELSE doc
    /\ gameState' = [gameState EXCEPT
                        ![p] = IF roomId[p] # NoRoom /\ authed[p]
                               THEN "spectating" ELSE "game_over"]
    /\ last' = [last EXCEPT ![p] = NoLast]
    /\ UNCHANGED <<old, now, authed, roomId, roomData, score, lastScoreSync,
                   sub, pc, alert>>

-----------------------------------------------------------------------------
(* The entries of clients outside Participants: a client that joined and   *)
(* left keeps its PlayerEntry (handleLeaveRoom writes nothing).  Such a     *)
(* client's handleJoinRoom is taken as one step, while no participant holds *)
(* a copy of the record, so that these entries all carry one status.        *)
GuestJoin ==
    /\ JoinVerdict(doc) = "none"
    /\ doc.guests = 0 \/ doc.guestStatus = "ready"
    /\ \A p \in Participants : sub[p] = NoSub /\ ~roomData[p].set
    /\ doc' = [doc EXCEPT !.guests = @ + 1, !.guestStatus = "ready"]
    /\ UNCHANGED <<old, now, authed, gameState, roomId, roomData, score,
                   lastScoreSync, sub, pc, alert, last>>

-----------------------------------------------------------------------------
(* Specifications.  The program's steps are grouped, and each              *)
(* specification takes the groups its properties are about: together they  *)
(* are every step of the program, and no single one of them can be         *)
(* explored with all the others.                                           *)

\* a round of the room: lobby, match, results, with snapshots of the current
\* record
Round ==
    \/ \E p \in Participants : Auth(p)
    \/ \E p \in Participants : Deliver(p, View(doc))
    \/ \E p \in Participants : RunEffect(p)
    \/ \E p \in Participants : handleEnterLobby(p)
    \/ \E p \in Participants : handleCreateRoom(p)
    \/ \E p \in Participants : JoinRead(p)
    \/ \E p \in Participants : JoinWrite(p)
    \/ \E p \in Participants : handleStartMatch(p)
    \/ \E p \in Participants : handleRestartLobby(p)
    \/ \E p \in Participants : \E cur \in Scores : \E lives \in LivesLeft :
          handleGameOver(p, cur, lives)

Membership ==
    \/ \E p \in Participants : handleLeaveRoom(p)
    \/ \E p \in Participants : SnapshotError(p)

ScoreReports ==
    \E p \in Participants : \E cur \in Scores : \E lives \in LivesLeft :
        handleScoreUpdate(p, cur, lives)

LateSnapshots ==
    \/ Capture
    \/ \E p \in Participants : Deliver(p, old)

\* rounds against the clock, with participants leaving and losing the
\* subscription
Next == Round \/ Tick \/ Membership

Spec == Init /\ [][Next]_vars

\* rounds with score reports
NextScore == Round \/ ScoreReports

SpecScore == Init /\ [][NextScore]_vars

\* rounds with snapshots delivered late
NextLate == Round \/ LateSnapshots

SpecLate == Init /\ [][NextLate]_vars

\* rounds in a room that fills up with the entries of departed clients
NextJoin == Round \/ GuestJoin \/ \E p \in Participants : handleLeaveRoom(p)

SpecJoin == Init /\ [][NextJoin]_vars

\* rounds under the scheduling the program relies on: a live listener is
\* handed the current record, and React runs a pending effect
Fairness ==
    \A p \in Participants :
        /\ WF_vars(Deliver(p, View(doc)))
        /\ WF_vars(RunEffect(p))

NextFair == Round \/ Membership

SpecFair == Init /\ [][NextFair]_vars /\ Fairness

-----------------------------------------------------------------------------
(* Properties *)

Snapshots == {View(doc), old}

InRoom(p) == roomId[p] # NoRoom

IsHostIn(data, p) == data.players[p].present /\ data.players[p].isHost

\* C1 (no resurrection): a snapshot with room status playing in which the
\* participant's own entry is crashed does not move the participant's phase
\* to playing, whatever its phase, and does not start the local game session.
C1_NoResurrection ==
    [][\A p \in Participants : \A data \in Snapshots :
          (/\ Deliver(p, data)
           /\ data.status = "playing"
           /\ data.players[p].status = "crashed")
          => /\ gameState'[p] = gameState[p]
             /\ score'[p] = score[p]
             /\ last'[p].effect # "start"]_vars

\* a crashed participant, spectating, with a live listener on a room that is
\* still playing: the callback runs on such a snapshot
C1_Witness ==
    \E p \in Participants :
        /\ doc.status = "playing"
        /\ doc.players[p].status = "crashed"
        /\ gameState[p] = "spectating"
        /\ sub[p] = LiveSub(TheRoom, "spectating")
        /\ ENABLED Deliver(p, View(doc))

\* C2 (idempotent reconciliation): a snapshot handed to the callback twice in
\* a row starts the local game at most once and forces the game-over at most
\* once, whether or not the callback was re-created in between.
C2_IdempotentReconciliation ==
    \A p \in Participants : last[p].times <= 1

\* C3 (host timeout): the host's callback, run on a snapshot with room status
\* playing later than startTime + GAME_DURATION_MS, writes room status
\* finished, however many players are still playing.
C3_HostTimeout ==
    [][\A p \in Participants : \A data \in Snapshots :
          (/\ Deliver(p, data)
           /\ data.status = "playing"
           /\ IsHostIn(data, p)
           /\ data.startTime # NoTime
           /\ now > data.startTime + GAME_DURATION_MS)
          => doc'.status = "finished"]_vars

\* the round was ended by the timeout while a player was still playing
C3_Witness ==
    /\ doc.status = "finished"
    /\ now > doc.startTime + GAME_DURATION_MS
    /\ ActivePlayersCount(doc) > 0

\* C4 (attrition): the host's callback, run on a snapshot with room status
\* playing in which no entry is playing, writes room status finished; run on
\* one in which an entry is playing and the timeout has not elapsed, it
\* leaves the room status alone.
C4_Attrition ==
    [][\A p \in Participants : \A data \in Snapshots :
          (/\ Deliver(p, data)
           /\ data.status = "playing"
           /\ IsHostIn(data, p))
          => /\ (\A q \in Keys(data) : data.players[q].status # "playing")
                /\ (data.guests = 0 \/ data.guestStatus # "playing")
                => doc'.status = "finished"
             /\ (\E q \in Keys(data) : data.players[q].status = "playing")
                /\ ~(data.startTime # NoTime
                     /\ now - data.startTime > GAME_DURATION_MS)
                => doc'.status = doc.status]_vars

\* the round was ended before the timeout
C4_Witness ==
    /\ doc.status = "finished"
    /\ now - doc.startTime <= GAME_DURATION_MS
    /\ \A q \in Keys(doc) : doc.players[q].status \in {"crashed", "finished"}

\* C5 (round reset): from restartLobby until the next startMatch the record
\* reads status waiting, no startTime, and every entry with score 0 and
\* status ready.  (Before the first match nothing writes a score or a status,
\* so a waiting record that reads otherwise has been reset.)
C5_RoundReset ==
    doc.status = "waiting"
      => /\ doc.startTime = NoTime
         /\ \A q \in Keys(doc) :
               doc.players[q].score = 0 /\ doc.players[q].status = "ready"

\* C6 (rejected join): handleJoinRoom on an absent room, a room with
\* MAX_PLAYERS_PER_ROOM entries or more, or a room that is playing, alerts,
\* writes nothing and leaves the caller's phase and room reference alone (a
\* full room is always refused as full); on any other room it goes on to
\* write the caller's entry and to enter the room's lobby.
C6_RejectedJoin ==
    [][\A p \in Participants :
          /\ JoinRead(p) =>
                IF doc.status = "absent"
                THEN /\ alert'[p] = "Room not found"
                     /\ pc'[p] = "idle"
                     /\ doc' = doc /\ gameState' = gameState /\ roomId' = roomId
                ELSE IF PlayerCount(doc) >= MAX_PLAYERS_PER_ROOM
                THEN /\ alert'[p] = "Room full wait for next round"
                     /\ pc'[p] = "idle"
                     /\ doc' = doc /\ gameState' = gameState /\ roomId' = roomId
                ELSE IF doc.status = "playing"
                THEN /\ alert'[p] = "Game in progress"
                     /\ pc'[p] = "idle"
                     /\ doc' = doc /\ gameState' = gameState /\ roomId' = roomId
                ELSE /\ doc.status \in {"waiting", "finished"}
                     /\ pc'[p] = "joining"
          /\ JoinWrite(p) =>
                /\ doc'.players[p] = PlayerEntry(0, FALSE, "ready")
                /\ roomId'[p] = TheRoom
                /\ gameState'[p] = "lobby"]_vars

\* a participant has been refused by a room with exactly
\* MAX_PLAYERS_PER_ROOM entries
C6_Witness ==
    \E p \in Participants :
        /\ alert[p] = "Room full wait for next round"
        /\ PlayerCount(doc) = MAX_PLAYERS_PER_ROOM
        /\ ~doc.players[p].present
        /\ roomId[p] = NoRoom

\* C7 (convergence at round end): while the room stays finished, a
\* participant in the room that is playing or spectating reaches game_over,
\* and a participant in a room never goes from playing to game_over in one
\* step.
C7_Convergence ==
    /\ \A p \in Participants :
          (doc.status = "finished" /\ InRoom(p)
             /\ gameState[p] \in {"playing", "spectating"})
          ~> (gameState[p] = "game_over" \/ doc.status # "finished"
                \/ ~InRoom(p))
    /\ [][\A p \in Participants :
             InRoom(p) /\ gameState[p] = "playing"
             => gameState'[p] # "game_over"]_vars

\* a participant in the finished room has been shown the results
C7_Witness ==
    \E p \in Participants :
        /\ doc.status = "finished"
        /\ InRoom(p)
        /\ gameState[p] = "game_over"
        /\ doc.players[p].status \in {"crashed", "finished"}

\* C8 (subscription error): the error callback clears the room reference,
\* sets the phase to menu and writes nothing; the errored listener handles no
\* snapshot and is only ever cleaned up (once: nothing follows it but no
\* listener); and a listener is created only for a participant that has a
\* room reference, which after the error only a new join or create gives.
C8_SubscriptionError ==
    [][\A p \in Participants :
          /\ SnapshotError(p)
             => roomId'[p] = NoRoom /\ gameState'[p] = "menu" /\ doc' = doc
          /\ sub[p].state = "errored"
             => /\ sub'[p] \in {sub[p], NoSub}
                /\ \A data \in Snapshots : ~Deliver(p, data)
                /\ roomData'[p] \in {roomData[p], NoRoomData}
          /\ sub[p].state # "live" /\ sub'[p].state = "live" => InRoom(p)
          /\ ~InRoom(p) /\ roomId'[p] # NoRoom
             => JoinWrite(p) \/ handleCreateRoom(p)]_vars

\* a participant whose listener has reported an error
C8_Witness ==
    \E p \in Participants :
        /\ sub[p].state = "errored"
        /\ roomId[p] = NoRoom
        /\ gameState[p] = "menu"
        /\ doc.players[p].present

\* C9 (startMatch): right after handleStartMatch's write the record has
\* status playing, startTime the time of the call, and every entry in it has
\* status playing and score 0.
C9_StartMatch ==
    [][\A p \in Participants :
          handleStartMatch(p)
          => /\ doc'.status = "playing"
             /\ doc'.startTime = now
             /\ \A q \in Keys(doc') :
                   /\ doc'.players[q].status = "playing"
                   /\ doc'.players[q].score = 0]_vars

\* C10 (leave): handleLeaveRoom clears the caller's room reference, sets its
\* phase to menu and leaves the record as it is; and a participant without a
\* room reference has no live listener, so that no snapshot reaches its
\* callback.
C10_LeaveIsLocal ==
    [][\A p \in Participants :
          /\ handleLeaveRoom(p)
             => roomId'[p] = NoRoom /\ gameState'[p] = "menu" /\ doc' = doc
          /\ ~InRoom(p)
             => /\ sub[p].state # "live"
                /\ \A data \in Snapshots : ~Deliver(p, data)]_vars

\* a participant has left and its entry, the host's included, is still in the
\* record
C10_Witness ==
    \E p \in Participants :
        /\ ~InRoom(p)
        /\ gameState[p] = "menu"
        /\ sub[p] = NoSub
        /\ doc.players[p].present
        /\ doc.players[p].isHost

\* the record d2 differs from d at most in the score of p's entry
OnlyScoreOf(p, d, d2) == d2 = [d EXCEPT !.players[p].score = d2.players[p].score]

\* the record d2 differs from d at most in the score and status of p's entry
OnlyResultOf(p, d, d2) ==
    d2 = [d EXCEPT !.players[p].score = d2.players[p].score,
                   !.players[p].status = d2.players[p].status]

\* C11 (writer-scoped writes): a score report changes nothing in the record
\* but the caller's score, and a round-result report (from the game or forced
\* by a finished snapshot) nothing but the caller's score and status: room
\* status, startTime, the caller's isHost and every other entry stay.
C11_WriterScoped ==
    [][\A p \in Participants :
          /\ \A cur \in Scores : \A lives \in LivesLeft :
                /\ handleScoreUpdate(p, cur, lives) => OnlyScoreOf(p, doc, doc')
                /\ handleGameOver(p, cur, lives) => OnlyResultOf(p, doc, doc')
          /\ \A data \in Snapshots :
                (Deliver(p, data) /\ data.status = "finished"
                   /\ sub[p].phase = "playing")
                => OnlyResultOf(p, doc, doc')]_vars

\* a score report has been written by a participant that is still playing,
\* in a room with another entry
C11_Witness ==
    \E p \in Participants :
        /\ doc.players[p].score > 0
        /\ doc.players[p].status = "playing"
        /\ lastScoreSync[p] = now
        /\ \E q \in Keys(doc) : q # p

\* C12 (an ended participant is not restarted): while the record has room
\* status playing and the participant's entry is crashed or finished, no
\* snapshot handled by the participant, an older one included, moves its
\* phase to playing.
C12_NotRestarted ==
    [][\A p \in Participants : \A data \in Snapshots :
          (/\ Deliver(p, data)
           /\ doc.status = "playing"
           /\ doc.players[p].status \in {"crashed", "finished"}
           /\ gameState[p] # "playing")
          => gameState'[p] # "playing"]_vars

\* C13 (room capacity): the record never has more than MAX_PLAYERS_PER_ROOM
\* entries, however the reads and the writes of concurrent joins interleave.
C13_CapacityBound == PlayerCount(doc) <= MAX_PLAYERS_PER_ROOM

\* C14 (startTime and status): the record has a startTime exactly when its
\* room status is playing or finished, also when the host's round-end write
\* comes from a snapshot older than a restartLobby.
C14_StartTimeStatus ==
    doc.status # "absent"
      => (doc.startTime # NoTime <=> doc.status \in {"playing", "finished"})

\* C15 (single host): the record has exactly one entry with isHost (only
\* handleCreateRoom writes isHost true, so that it is the creator's), also
\* after the creator has left and joined again.
C15_SingleHost ==
    doc.status # "absent"
      => Cardinality({q \in Keys(doc) : doc.players[q].isHost}) = 1

\* C16 (round-end authority): the room status becomes finished only in a
\* step of the snapshot callback of a participant whose entry in the snapshot
\* has isHost, on a snapshot with room status playing in which the timeout
\* has elapsed or no entry is playing; the step changes nothing in the record
\* but the room status.
C16_RoundEndAuthority ==
    [][doc.status # "finished" /\ doc'.status = "finished"
       => \E p \in Participants : \E data \in Snapshots :
             /\ Deliver(p, data)
             /\ data.players[p].present /\ data.players[p].isHost
             /\ data.status = "playing"
             /\ \/ data.startTime # NoTime
                   /\ now - data.startTime > GAME_DURATION_MS
                \/ /\ \A q \in Keys(data) : data.players[q].status # "playing"
                   /\ data.guests = 0 \/ data.guestStatus # "playing"
             /\ doc' = [doc EXCEPT !.status = "finished"]]_vars

\* the host has ended a round of two participants, and the other one is
\* still playing
C16_Witness ==
    \E p \in Participants : \E q \in Participants :
        /\ doc.status = "finished"
        /\ doc.players[p].present /\ doc.players[p].isHost
        /\ doc.players[q].present /\ ~doc.players[q].isHost
        /\ gameState[q] = "playing"
        /\ roomId[q] # NoRoom

Resubscribes(p) == sub'[p] # sub[p] /\ sub'[p].state # "errored"

C19_NoStuckSpectators ==
    \A p \in Participants :
        (/\ gameState[p] = "spectating" /\ InRoom(p)
         /\ doc.status = "playing" /\ ActivePlayersCount(doc) = 0)
        ~> (gameState[p] # "spectating" \/ ~InRoom(p))

\* C20 (no premature round end): the room status goes from playing to
\* finished only when, in the record at that moment, the timeout of the
\* round has elapsed or no entry is playing, also when the host evaluates a
\* delayed snapshot of an earlier round.
C20_NoPrematureEnd ==
    [][doc.status = "playing" /\ doc'.status = "finished"
       => \/ doc.startTime # NoTime /\ now - doc.startTime > GAME_DURATION_MS
          \/ ActivePlayersCount(doc) = 0]_vars

====
